---- MODULE Spec2Model ----
(***************************************************************************)
(* State-machine model of the iCoach account and authentication backend:   *)
(* the users table (models/sql User), the UserService operations, the      *)
(* UserController handlers with their route validation, the Google OAuth   *)
(* verify callback and the JWT middleware.                                 *)
(***************************************************************************)
EXTENDS Integers, Sequences, FiniteSets, TLC

VARIABLES
    users,      \* the users table: a sequence of rows, row i has id i
    now,        \* the wall clock, Date.now(), in milliseconds
    ticks,      \* how often the clock has advanced
    rnd,        \* how many values crypto.randomBytes has produced so far
    resp,       \* the outcome of the last request
    jwts,       \* the access and refresh tokens issued so far
    redeemed,   \* the refresh tokens POST /refresh-token has accepted so far
    spent,      \* the reset tokens POST /reset-password has accepted so far
    verified,   \* the tokens GET /verify-email has accepted so far
    reqs        \* the requests in flight whose handler is between two awaits

vars == <<users, now, ticks, rnd, resp, jwts, redeemed, spent, verified, reqs>>

(***************************************************************************)
(* Bounds of the model.                                                    *)
(***************************************************************************)
MaxTicks == 3       \* how often the clock advances
MaxRnd == 3         \* how many random tokens are drawn
MaxJwts == 4        \* how many distinct JWTs are signed

(***************************************************************************)
(* Values.                                                                 *)
(***************************************************************************)
NULL == -1                          \* SQL NULL of a token or date column
ClientToken == 0                    \* a token string a client made up itself
NoPassword == [alg |-> "none", of |-> ""]   \* password IS NULL

\* Date.now() + 10 * 60 * 1000 in requestPasswordReset
ResetTTL == 10 * 60 * 1000
\* a date far beyond every instant the clock reaches
FarFuture == 1000 * ResetTTL

\* request inputs: e-mail addresses, user names and passwords that pass the
\* route validation (isEmail, /^[a-zA-Z0-9_-]+$/, the password policy)
EmailInputs == {"a@x.io", "A@x.io", "b.c@x.io"}
UsernameInputs == {"alice", "Alice", "bob"}
Passwords == {"Passw0rd!", "N3w!pass"}

\* crypto.randomBytes(4).toString('hex') for the r-th draw
Hex(r) == <<"0a1b2c3d", "1b2c3d4e", "2c3d4e5f", "3d4e5f60", "4e5f6071", "5f607182">>[r]

\* String.prototype.toLowerCase on the strings of the model
ToLowerCase(s) ==
    CASE s = "A@x.io" -> "a@x.io"
      [] s = "Alice" -> "alice"
      [] \E r \in 1..6 : s = "A_" \o Hex(r) ->
            "a_" \o Hex(CHOOSE r \in 1..6 : s = "A_" \o Hex(r))
      [] OTHER -> s

\* express-validator normalizeEmail(): lower-cases the whole address
NormalizeEmail(s) == ToLowerCase(s)

\* email.split('@')[0]
LocalPart(e) ==
    CASE e = "a@x.io" -> "a"
      [] e = "A@x.io" -> "A"
      [] e = "b.c@x.io" -> "b.c"
      [] OTHER -> e

\* the username pattern /^[a-zA-Z0-9_-]+$/ : no dot, no at-sign
UsernameOk(n) ==
    /\ n \notin EmailInputs
    /\ n \notin {"b.c"} \cup {"b.c" \o "_" \o Hex(r) : r \in 1..6}

(***************************************************************************)
(* Password hasher (bcryptjs).                                             *)
(***************************************************************************)
HashPassword(p) == [alg |-> "bcrypt", of |-> p]

\* a comparison that accepts every candidate for an account with a password
ComparePassword_Any(u, candidate) == u.password # NoPassword

ComparePassword(u, candidate) ==
    IF u.password = NoPassword
    THEN FALSE
    ELSE u.password.alg = "bcrypt" /\ u.password.of = candidate

(***************************************************************************)
(* The users table.                                                        *)
(***************************************************************************)
Ids == 1..Len(users)

Has(vals, f) == f \in DOMAIN vals
Get(vals, f, default) == IF f \in DOMAIN vals THEN vals[f] ELSE default

\* findOne({where}): the ids of the rows a query may return (one of them, in
\* no specified order, when several match)
FindByEmail(email) == {i \in Ids : users[i].email = ToLowerCase(email)}
\* a lookup that compares the user name as it was typed
FindByUsername_AsTyped(username) == {i \in Ids : users[i].username = username}
FindByUsername(username) == {i \in Ids : users[i].username = ToLowerCase(username)}

\* the unique indexes on email and username
UniqueOk(tbl) ==
    \A i, j \in 1..Len(tbl) :
        i # j => tbl[i].email # tbl[j].email /\ tbl[i].username # tbl[j].username

\* the attribute setters of User.init: email and username are lower-cased
SetEmail(v) == ToLowerCase(v)
SetUsername(v) == ToLowerCase(v)

\* model validation of the attributes the requests of the model can carry;
\* the min / max validators of height, weight and bmi skip a null value
RowValid(u) ==
    /\ UsernameOk(u.username)
    /\ u.lastName # ""
    /\ u.role \in {"user", "coach", "admin"}
    /\ u.authProvider \in {"regular", "google"}
    /\ u.height # NULL => u.height \in 50..300
    /\ u.weight # NULL => u.weight \in 20..500
    /\ u.bmi # NULL => u.bmi \in 1000..5000

\* User.calculateBMI for a height in cm and a weight in kg, in hundredths:
\* Math.round(weight / (height / 100) ^ 2 * 100), null without either
CalculateBMI(height, weight) ==
    IF height = NULL \/ weight = NULL THEN NULL
    ELSE (2 * weight * 1000000 + height * height) \div (2 * height * height)

\* hook beforeUpdate, second half: a changed height or weight sets bmi
BmiOnUpdate(old, new) ==
    IF new.height # old.height \/ new.weight # old.weight
    THEN [new EXCEPT !.bmi = CalculateBMI(new.height, new.weight)]
    ELSE new

\* hook beforeCreate: a truthy password is hashed, and bmi is computed when
\* height and weight are both there
BeforeCreate(u) ==
    LET hashed == IF u.password # NoPassword /\ u.password.alg = "plain"
                  THEN [u EXCEPT !.password = HashPassword(u.password.of)]
                  ELSE u
    IN  IF hashed.height # NULL /\ hashed.weight # NULL
        THEN [hashed EXCEPT !.bmi = CalculateBMI(hashed.height, hashed.weight)]
        ELSE hashed

\* User.build(values): column defaults and setters
Build(vals) ==
    [ email |-> SetEmail(vals.email),
      username |-> SetUsername(vals.username),
      lastName |-> Get(vals, "lastName", "Doe"),
      password |-> IF Has(vals, "password")
                   THEN [alg |-> "plain", of |-> vals.password]
                   ELSE NoPassword,
      authProvider |-> Get(vals, "authProvider", "regular"),
      isActive |-> Get(vals, "isActive", TRUE),
      isEmailVerified |-> Get(vals, "isEmailVerified", FALSE),
      emailVerificationToken |-> Get(vals, "emailVerificationToken", NULL),
      passwordResetToken |-> Get(vals, "passwordResetToken", NULL),
      passwordResetExpires |-> Get(vals, "passwordResetExpires", NULL),
      lastLogin |-> Get(vals, "lastLogin", NULL),
      height |-> Get(vals, "height", NULL),
      weight |-> Get(vals, "weight", NULL),
      bmi |-> Get(vals, "bmi", NULL),
      role |-> Get(vals, "role", "user") ]

\* a table without the unique indexes: only the validators can refuse a row
CreateError_NoUniqueIndex(vals) ==
    IF ~RowValid(Build(vals)) THEN "SequelizeValidationError" ELSE "none"

\* the outcome of User.create(values): validate, beforeCreate, INSERT
CreateError(vals) ==
    IF ~RowValid(Build(vals)) THEN "SequelizeValidationError"
    ELSE IF ~UniqueOk(Append(users, Build(vals))) THEN "SequelizeUniqueConstraintError"
    ELSE "none"

Created(vals) == Append(users, BeforeCreate(Build(vals)))

\* user.set(values): every attribute of the model that values carries is
\* assigned, through its setter where it has one
SetAll(u, vals) ==
    [f \in DOMAIN u |->
        IF f \notin DOMAIN vals THEN u[f]
        ELSE CASE f = "email" -> SetEmail(vals[f])
               [] f = "username" -> SetUsername(vals[f])
               [] f = "password" -> [alg |-> "plain", of |-> vals[f]]
               [] OTHER -> vals[f]]

\* a hook that stores the password as it was set
BeforeUpdate_AsSet(old, new) == new

\* hook beforeUpdate: a changed, truthy password is hashed, then the BMI
BeforeUpdate(old, new) ==
    BmiOnUpdate(old,
        IF new.password # old.password /\ new.password # NoPassword
        THEN [new EXCEPT !.password = HashPassword(new.password.of)]
        ELSE new)

\* the outcome of users[i].update(values): validate, beforeUpdate, UPDATE
UpdateError(i, vals) ==
    IF ~RowValid(SetAll(users[i], vals)) THEN "SequelizeValidationError"
    ELSE IF ~UniqueOk([users EXCEPT ![i] = SetAll(users[i], vals)])
    THEN "SequelizeUniqueConstraintError"
    ELSE "none"

Updated(i, vals) ==
    [users EXCEPT ![i] = BeforeUpdate(users[i], SetAll(users[i], vals))]

(***************************************************************************)
(* Responses.                                                              *)
(***************************************************************************)
\* error.statusCode of the AppError classes of utils/errors
AppErrorStatus(err) ==
    CASE err = "ValidationError" -> 400
      [] err = "UnauthorizedError" -> 401
      [] err = "ForbiddenError" -> 403
      [] err = "NotFoundError" -> 404
      [] err = "ConflictError" -> 409

\* the status the error handler gives an error
StatusOf(err) ==
    CASE err = "none" -> 200
      [] err \in {"ValidationError", "UnauthorizedError", "ForbiddenError",
                  "NotFoundError", "ConflictError"} -> AppErrorStatus(err)
      [] err = "SequelizeValidationError" -> 400
      [] err = "SequelizeUniqueConstraintError" -> 409
      [] OTHER -> 500

\* a serialisation that drops the password only
ToJSON_PasswordOnly(u) == [f \in DOMAIN u \ {"password"} |-> u[f]]

\* User.toJSON: the attributes without password, emailVerificationToken and
\* passwordResetToken
ToJSON(u) ==
    [f \in DOMAIN u \ {"password", "emailVerificationToken", "passwordResetToken"} |-> u[f]]

\* the response to a request: the handler, the error it ended with ("none"
\* on success), the error's message and the id of the row the handler reached
\* and, for a request that carries a reset or verification token, that token
ResponseT(op, err, msg, uid, token) ==
    [op |-> op, err |-> err, msg |-> msg, uid |-> uid, token |-> token,
     status |-> IF op = "register" /\ err = "none" THEN 201 ELSE StatusOf(err)]

Response(op, err, msg, uid) == ResponseT(op, err, msg, uid, NULL)

(***************************************************************************)
(* JSON web tokens (jsonwebtoken sign / verify, HS256).                    *)
(***************************************************************************)
JWT_SECRET == "access-secret"
\* a deployment that signs refresh tokens with the access secret
JWT_REFRESH_SECRET_Reused == JWT_SECRET
JWT_REFRESH_SECRET == "refresh-secret"

\* expiresIn '7d' and '30d', in seconds
AccessTTL == 7 * 24 * 3600
RefreshTTL == 30 * 24 * 3600
\* jwtConfig.refreshExpiresIn, '7d' unless the environment sets it
ServiceRefreshTTL == 7 * 24 * 3600

\* the NumericDate of the clock: seconds
Seconds(ms) == ms \div 1000

\* jwt.sign({id, email, role}, JWT_SECRET, {expiresIn})
GenerateAccessToken(id, email, role) ==
    [sig |-> JWT_SECRET, type |-> "undefined", id |-> id, email |-> email,
     role |-> role, exp |-> Seconds(now) + AccessTTL]

\* jwt.sign({id, type: 'refresh'}, JWT_REFRESH_SECRET, {expiresIn})
GenerateRefreshToken(id) ==
    [sig |-> JWT_REFRESH_SECRET, type |-> "refresh", id |-> id, email |-> "undefined",
     role |-> "undefined", exp |-> Seconds(now) + RefreshTTL]

\* JWTService.generateRefreshToken({userId, email, role}): signed with the
\* refresh secret, expiresIn '7d', neither an id nor a type claim
ServiceRefreshToken(userId, email, role) ==
    [sig |-> JWT_REFRESH_SECRET, type |-> "undefined", id |-> "undefined",
     userId |-> userId, email |-> email, role |-> role,
     exp |-> Seconds(now) + ServiceRefreshTTL]

\* jwt.verify(token, secret): the error it throws, or "none"
Verify(token, secret) ==
    IF token.sig # secret THEN "JsonWebTokenError"
    ELSE IF Seconds(now) >= token.exp THEN "TokenExpiredError"
    ELSE "none"

\* what a request carries in its Authorization header
NoHeader == [scheme |-> "none"]
Bearer(token) == [scheme |-> "Bearer", token |-> token]
\* a header of another scheme, 'Basic <token>'
Basic(token) == [scheme |-> "Basic", token |-> token]
\* the empty string after the scheme: authHeader.split(' ')[1] is falsy
NoToken == [empty |-> TRUE]

\* the middleware without the startsWith('Bearer ') test: whatever follows
\* the first blank is taken for the token
AuthenticateError_AnyScheme(header) ==
    IF header.scheme = "none" THEN "UnauthorizedError"
    ELSE IF header.token = NoToken THEN "UnauthorizedError"
    ELSE IF Verify(header.token, JWT_SECRET) # "none" THEN "UnauthorizedError"
    ELSE "none"

\* middleware authenticate: the error handed to next(), or "none"
AuthenticateError(header) ==
    IF header.scheme = "none" THEN "UnauthorizedError"
    ELSE IF header.scheme # "Bearer" THEN "UnauthorizedError"
    ELSE IF header.token = NoToken THEN "UnauthorizedError"
    ELSE IF Verify(header.token, JWT_SECRET) # "none" THEN "UnauthorizedError"
    ELSE "none"

AuthenticateMessage(header) ==
    IF header.scheme = "none" THEN "Authentication required"
    ELSE IF header.scheme # "Bearer" THEN "Invalid authorization format"
    ELSE IF header.token = NoToken THEN "Authentication token is missing"
    ELSE IF Verify(header.token, JWT_SECRET) = "JsonWebTokenError" THEN "Invalid authentication token"
    ELSE IF Verify(header.token, JWT_SECRET) = "TokenExpiredError" THEN "Authentication token has expired"
    ELSE ""

\* req.user as authenticate attaches it
Identity(header) ==
    [id |-> header.token.id, email |-> header.token.email, role |-> header.token.role]

\* middleware authorize(...roles)
AuthorizeError(header, roles) ==
    IF AuthenticateError(header) # "none" THEN "UnauthorizedError"
    ELSE IF Identity(header).role \notin roles THEN "ForbiddenError"
    ELSE "none"

\* a middleware that lets every authenticated identity through
AuthorizeOwnerOrAdminError_Anyone(header, id) ==
    IF AuthenticateError(header) # "none" THEN "UnauthorizedError"
    ELSE "none"

\* middleware authorizeOwnerOrAdmin, behind validateIdParam
AuthorizeOwnerOrAdminError(header, id) ==
    IF AuthenticateError(header) # "none" THEN "UnauthorizedError"
    ELSE IF Identity(header).role = "admin" \/ Identity(header).id = id THEN "none"
    ELSE "ForbiddenError"

\* validateIdParam: isInt({min: 1})
IdParamOk(id) == id >= 1

(***************************************************************************)
(* The clock.                                                              *)
(***************************************************************************)
Tick(d) ==
    /\ ticks < MaxTicks
    /\ now' = now + d
    /\ ticks' = ticks + 1
    /\ UNCHANGED <<users, rnd, resp, jwts, redeemed, spent, verified, reqs>>

(***************************************************************************)
(* POST /register: validateUserRegistration, UserController.register,      *)
(* UserService.createUser.                                                 *)
(***************************************************************************)
\* the request body after the validation chain has run: the validated fields
\* and whatever else the client sent
RegisterBody(email, username, password, extra) ==
    [f \in {"email", "username", "password"} \cup DOMAIN extra |->
        CASE f = "email" -> NormalizeEmail(email)
          [] f = "username" -> username
          [] f = "password" -> password
          [] OTHER -> extra[f]]

ProcessUserBodyData(userData) ==
    [f \in DOMAIN userData \cup
           {"isActive", "isEmailVerified", "role", "emailVerificationToken",
            "passwordResetToken", "passwordResetExpires", "lastLogin",
            "height", "weight", "bmi"} |->
        IF f \in DOMAIN userData THEN userData[f]
        ELSE CASE f = "isActive" -> TRUE
               [] f = "isEmailVerified" -> FALSE
               [] f = "role" -> "user"
               [] OTHER -> NULL]

Register(email, username, password, extra) ==
    LET userData == RegisterBody(email, username, password, extra)
        processed == ProcessUserBodyData(userData)
        err == CreateError(processed)
        id == Len(users) + 1
    IN  /\ rnd < MaxRnd
        /\ UNCHANGED <<now, ticks, jwts, redeemed, spent, verified, reqs>>
        /\ IF FindByEmail(userData.email) # {}
           THEN /\ resp' = Response("register", "ConflictError", "Email already exists", 0)
                /\ UNCHANGED <<users, rnd>>
           ELSE IF FindByUsername(userData.username) # {}
           THEN /\ resp' = Response("register", "ConflictError", "Username already exists", 0)
                /\ UNCHANGED <<users, rnd>>
           ELSE IF err # "none"
           THEN /\ resp' = Response("register",
                              IF err = "SequelizeValidationError" THEN "ValidationError" ELSE err,
                              "Invalid user data", 0)
                /\ UNCHANGED <<users, rnd>>
           ELSE /\ users' = [Created(processed) EXCEPT ![id].emailVerificationToken = rnd + 1]
                /\ rnd' = rnd + 1
                /\ resp' = Response("register", "none", "User created successfully", id)

(***************************************************************************)
(* GET /auth/google/callback: the verify callback of the GoogleStrategy.   *)
(***************************************************************************)
OAuthEmails == {"a@x.io", "b.c@x.io"}
FamilyNames == {"Doe", ""}

\* the values the callback hands to User.create for a new Google account
GoogleUser(email, familyName, r) ==
    [ email |-> email,
      username |-> LocalPart(email) \o "_" \o Hex(r),
      lastName |-> familyName,
      isEmailVerified |-> TRUE,
      isActive |-> TRUE,
      role |-> "user",
      authProvider |-> "google",
      lastLogin |-> now ]

\* a callback that signs in whoever holds the address, whatever the provider
OAuthLogin_AnyProvider(email, familyName) ==
    LET found == FindByEmail(email)
        vals == GoogleUser(email, familyName, rnd + 1)
        id == Len(users) + 1
    IN  /\ UNCHANGED <<now, ticks, jwts, redeemed, spent, verified, reqs>>
        /\ IF found # {}
           THEN \E i \in found :
                  /\ users' = [users EXCEPT ![i].lastLogin = now]
                  /\ resp' = Response("oauth", "none", "", i)
                  /\ UNCHANGED rnd
           ELSE /\ rnd < MaxRnd
                /\ rnd' = rnd + 1
                /\ IF CreateError(vals) # "none"
                   THEN /\ resp' = Response("oauth", CreateError(vals), "", 0)
                        /\ UNCHANGED users
                   ELSE /\ users' = Created(vals)
                        /\ resp' = Response("oauth", "none", "", id)

OAuthLogin(email, familyName) ==
    LET found == FindByEmail(email)
        vals == GoogleUser(email, familyName, rnd + 1)
        id == Len(users) + 1
    IN  /\ UNCHANGED <<now, ticks, jwts, redeemed, spent, verified, reqs>>
        /\ IF found # {}
           THEN \E i \in found :
                  IF users[i].authProvider # "google"
                  THEN /\ resp' = Response("oauth", "Error", "already registered", i)
                       /\ UNCHANGED <<users, rnd>>
                  ELSE /\ users' = [users EXCEPT ![i].lastLogin = now]
                       /\ resp' = Response("oauth", "none", "", i)
                       /\ UNCHANGED rnd
           ELSE /\ rnd < MaxRnd
                /\ rnd' = rnd + 1
                /\ IF CreateError(vals) # "none"
                   THEN /\ resp' = Response("oauth", CreateError(vals), "", 0)
                        /\ UNCHANGED users
                   ELSE /\ users' = Created(vals)
                        /\ resp' = Response("oauth", "none", "", id)

(***************************************************************************)
(* POST /login: validateUserLogin, UserController.login,                   *)
(* UserService.authenticateUser.                                           *)
(***************************************************************************)
Login(emailOrUsername, password) ==
    LET byEmail == FindByEmail(emailOrUsername)
        found == IF byEmail # {} THEN byEmail ELSE FindByUsername(emailOrUsername)
    IN  /\ UNCHANGED <<now, ticks, rnd, redeemed, spent, verified, reqs>>
        /\ IF found = {}
           THEN /\ resp' = Response("login", "ValidationError", "Invalid credentials", 0)
                /\ UNCHANGED <<users, jwts>>
           ELSE \E i \in found :
                  IF ~users[i].isActive
                  THEN /\ resp' = Response("login", "ValidationError", "Account is deactivated", i)
                       /\ UNCHANGED <<users, jwts>>
                  ELSE IF ~ComparePassword(users[i], password)
                  THEN /\ resp' = Response("login", "ValidationError", "Invalid credentials", i)
                       /\ UNCHANGED <<users, jwts>>
                  ELSE /\ users' = [users EXCEPT ![i].lastLogin = now]
                       /\ jwts' = jwts \cup
                              { GenerateAccessToken(i, users[i].email, users[i].role),
                                GenerateRefreshToken(i) }
                       /\ Cardinality(jwts') <= MaxJwts
                       /\ resp' = Response("login", "none", "Login successful", i)

(***************************************************************************)
(* POST /forgot-password and POST /reset-password:                         *)
(* UserService.requestPasswordReset and UserService.resetPassword.         *)
(***************************************************************************)
RequestPasswordReset(email) ==
    LET found == FindByEmail(NormalizeEmail(email))
    IN  /\ UNCHANGED <<now, ticks, jwts, redeemed, spent, verified, reqs>>
        /\ IF found = {}
           THEN /\ resp' = Response("forgotPassword", "NotFoundError", "User not found", 0)
                /\ UNCHANGED <<users, rnd>>
           ELSE /\ rnd < MaxRnd
                /\ \E i \in found :
                     /\ users' = Updated(i, [passwordResetToken |-> rnd + 1,
                                             passwordResetExpires |-> now + ResetTTL])
                     /\ resp' = Response("forgotPassword", "none",
                                         "Password reset token generated", i)
                /\ rnd' = rnd + 1

\* a query with Op.gte in place of Op.gt
ResetCandidates_Gte(token) ==
    {i \in Ids : /\ users[i].passwordResetToken = token
                 /\ users[i].passwordResetExpires # NULL
                 /\ users[i].passwordResetExpires >= now}
\* the rows the query of resetPassword matches:
\* passwordResetToken = token AND passwordResetExpires > now
ResetCandidates(token) ==
    {i \in Ids : /\ users[i].passwordResetToken = token
                 /\ users[i].passwordResetExpires # NULL
                 /\ users[i].passwordResetExpires > now}

ResetPassword(token, newPassword) ==
    /\ UNCHANGED <<now, ticks, rnd, jwts, redeemed, verified, reqs>>
    /\ IF ResetCandidates(token) = {}
       THEN /\ resp' = ResponseT("resetPassword", "ValidationError",
                                 "Invalid or expired reset token", 0, token)
            /\ UNCHANGED <<users, spent>>
       ELSE \E i \in ResetCandidates(token) :
              /\ users' = Updated(i, [password |-> newPassword,
                                      passwordResetToken |-> NULL,
                                      passwordResetExpires |-> NULL])
              /\ spent' = spent \cup {token}
              /\ resp' = ResponseT("resetPassword", "none",
                                   "Password reset successfully", i, token)

\* Two requests handled at once.  resetPassword awaits User.findOne and then
\* user.update; the event loop may run another request between the two.
Requests == {1, 2}
Idle == [pc |-> "idle", token |-> NULL, password |-> "", row |-> 0, err |-> "none",
         email |-> "", username |-> ""]

\* request r runs resetPassword up to the end of its findOne
ResetFind(r, token, newPassword) ==
    /\ reqs[r].pc = "idle"
    /\ UNCHANGED <<users, now, ticks, rnd, jwts, redeemed, spent, verified>>
    /\ IF ResetCandidates(token) = {}
       THEN /\ reqs' = [reqs EXCEPT ![r] = [Idle EXCEPT !.pc = "done", !.token = token,
                           !.password = newPassword, !.err = "ValidationError"]]
            /\ resp' = ResponseT("resetPassword", "ValidationError",
                                 "Invalid or expired reset token", 0, token)
       ELSE \E i \in ResetCandidates(token) :
              /\ reqs' = [reqs EXCEPT ![r] = [Idle EXCEPT !.pc = "found", !.token = token,
                             !.password = newPassword, !.row = i]]
              /\ UNCHANGED resp

\* request r runs the rest of resetPassword: user.update on the row it found
ResetUpdate(r) ==
    /\ reqs[r].pc = "found"
    /\ UNCHANGED <<now, ticks, rnd, jwts, redeemed, verified>>
    /\ users' = Updated(reqs[r].row, [password |-> reqs[r].password,
                                       passwordResetToken |-> NULL,
                                       passwordResetExpires |-> NULL])
    /\ spent' = spent \cup {reqs[r].token}
    /\ reqs' = [reqs EXCEPT ![r].pc = "done"]
    /\ resp' = ResponseT("resetPassword", "none", "Password reset successfully",
                         reqs[r].row, reqs[r].token)

\* Two registrations handled at once.  createUser awaits User.findByEmail,
\* User.findByUsername, User.create and user.update in turn; the event loop
\* may run another request between any two of them.

\* request r runs createUser up to the end of findByEmail
RegisterFindEmail(r, email, username, password) ==
    /\ reqs[r].pc = "idle"
    /\ UNCHANGED <<users, now, ticks, rnd, jwts, redeemed, spent, verified>>
    /\ IF FindByEmail(NormalizeEmail(email)) # {}
       THEN /\ reqs' = [reqs EXCEPT ![r] = [Idle EXCEPT !.pc = "done", !.err = "ConflictError",
                           !.email = NormalizeEmail(email), !.username = username,
                           !.password = password]]
            /\ resp' = Response("register", "ConflictError", "Email already exists", 0)
       ELSE /\ reqs' = [reqs EXCEPT ![r] = [Idle EXCEPT !.pc = "emailFree",
                           !.email = NormalizeEmail(email), !.username = username,
                           !.password = password]]
            /\ UNCHANGED resp

\* request r goes on to the end of findByUsername
RegisterFindUsername(r) ==
    /\ reqs[r].pc = "emailFree"
    /\ UNCHANGED <<users, now, ticks, rnd, jwts, redeemed, spent, verified>>
    /\ IF FindByUsername(reqs[r].username) # {}
       THEN /\ reqs' = [reqs EXCEPT ![r].pc = "done", ![r].err = "ConflictError"]
            /\ resp' = Response("register", "ConflictError", "Username already exists", 0)
       ELSE /\ reqs' = [reqs EXCEPT ![r].pc = "checked"]
            /\ UNCHANGED resp

\* request r goes on to the end of User.create
RegisterCreate(r) ==
    LET processed == ProcessUserBodyData(
                         RegisterBody(reqs[r].email, reqs[r].username, reqs[r].password, <<>>))
        err == CreateError(processed)
    IN  /\ reqs[r].pc = "checked"
        /\ UNCHANGED <<now, ticks, rnd, jwts, redeemed, spent, verified>>
        /\ IF err # "none"
           THEN /\ reqs' = [reqs EXCEPT ![r].pc = "done",
                               ![r].err = IF err = "SequelizeValidationError"
                                          THEN "ValidationError" ELSE err]
                /\ resp' = Response("register",
                                    IF err = "SequelizeValidationError"
                                    THEN "ValidationError" ELSE err, "", 0)
                /\ UNCHANGED users
           ELSE /\ users' = Created(processed)
                /\ reqs' = [reqs EXCEPT ![r].pc = "created", ![r].row = Len(users) + 1]
                /\ UNCHANGED resp

\* request r runs the rest of createUser: user.update with the fresh token
RegisterSetToken(r) ==
    /\ reqs[r].pc = "created"
    /\ rnd < MaxRnd
    /\ UNCHANGED <<now, ticks, jwts, redeemed, spent, verified>>
    /\ users' = Updated(reqs[r].row, [emailVerificationToken |-> rnd + 1])
    /\ rnd' = rnd + 1
    /\ reqs' = [reqs EXCEPT ![r].pc = "done"]
    /\ resp' = Response("register", "none", "User created successfully", reqs[r].row)

(***************************************************************************)
(* GET /verify-email/:token: UserService.verifyEmail.                      *)
(***************************************************************************)
VerifyEmail(token) ==
    LET found == {i \in Ids : users[i].emailVerificationToken = token}
    IN  /\ UNCHANGED <<now, ticks, rnd, jwts, redeemed, spent, reqs>>
        /\ IF found = {}
           THEN /\ resp' = ResponseT("verifyEmail", "ValidationError",
                                     "Invalid verification token", 0, token)
                /\ UNCHANGED <<users, verified>>
           ELSE \E i \in found :
                  /\ users' = Updated(i, [isEmailVerified |-> TRUE,
                                          emailVerificationToken |-> NULL])
                  /\ verified' = verified \cup {token}
                  /\ resp' = ResponseT("verifyEmail", "none",
                                       "Email verified successfully", i, token)

(***************************************************************************)
(* GET /profile, GET /users/:id and GET /users: UserController.getProfile, *)
(* getUserById and getAllUsers over UserService.getUserById / getAllUsers. *)
(***************************************************************************)
GetProfile(header) ==
    LET id == Identity(header).id
    IN  /\ UNCHANGED <<users, now, ticks, rnd, jwts, redeemed, spent, verified, reqs>>
        /\ IF AuthenticateError(header) # "none"
           THEN resp' = Response("getProfile", AuthenticateError(header),
                                 AuthenticateMessage(header), 0)
           ELSE IF id \notin Ids
           THEN resp' = Response("getProfile", "NotFoundError", "User not found", 0)
           ELSE resp' = Response("getProfile", "none", "Profile retrieved successfully", id)

\* authenticate, validateIdParam, authorizeOwnerOrAdmin, getUserById
GetUserById(header, id) ==
    /\ UNCHANGED <<users, now, ticks, rnd, jwts, redeemed, spent, verified, reqs>>
    /\ IF AuthenticateError(header) # "none"
       THEN resp' = Response("getUserById", AuthenticateError(header),
                             AuthenticateMessage(header), 0)
       ELSE IF ~IdParamOk(id)
       THEN resp' = Response("getUserById", "ValidationError", "Validation failed", 0)
       ELSE IF AuthorizeOwnerOrAdminError(header, id) # "none"
       THEN resp' = Response("getUserById", AuthorizeOwnerOrAdminError(header, id),
                             "Access denied", 0)
       ELSE IF id \notin Ids
       THEN resp' = Response("getUserById", "NotFoundError", "User not found", 0)
       ELSE resp' = Response("getUserById", "none", "User retrieved successfully", id)

\* authenticate, authorize('admin'), validatePagination, getAllUsers
GetAllUsers(header) ==
    /\ UNCHANGED <<users, now, ticks, rnd, jwts, redeemed, spent, verified, reqs>>
    /\ IF AuthorizeError(header, {"admin"}) # "none"
       THEN resp' = Response("getAllUsers", AuthorizeError(header, {"admin"}), "", 0)
       ELSE resp' = Response("getAllUsers", "none", "Users retrieved successfully", 0)

(***************************************************************************)
(* POST /change-password: authenticate, UserController.changePassword,     *)
(* UserService.changePassword.                                             *)
(***************************************************************************)
ChangePassword(header, currentPassword, newPassword) ==
    LET id == Identity(header).id
    IN  /\ UNCHANGED <<now, ticks, rnd, jwts, redeemed, spent, verified, reqs>>
        /\ IF AuthenticateError(header) # "none"
           THEN /\ resp' = Response("changePassword", AuthenticateError(header),
                                    AuthenticateMessage(header), 0)
                /\ UNCHANGED users
           ELSE IF id \notin Ids
           THEN /\ resp' = Response("changePassword", "NotFoundError", "User not found", 0)
                /\ UNCHANGED users
           ELSE IF ~ComparePassword(users[id], currentPassword)
           THEN /\ resp' = Response("changePassword", "ValidationError",
                                    "Current password is incorrect", id)
                /\ UNCHANGED users
           ELSE /\ users' = Updated(id, [password |-> newPassword])
                /\ resp' = Response("changePassword", "none",
                                    "Password changed successfully", id)

(***************************************************************************)
(* UserService.updateUser, behind PUT /profile (UserController.            *)
(* updateProfile) and PUT /users/:id (UserController.updateUser).          *)
(***************************************************************************)
\* the request body after validateProfileUpdate: email is normalised
ProfileBody(body) ==
    [f \in DOMAIN body |-> IF f = "email" THEN NormalizeEmail(body[f]) ELSE body[f]]

\* validateProfileUpdate on height and weight: optional().isFloat({min, max}),
\* which a null value does not pass
ProfileBodyOk(body) ==
    /\ Has(body, "height") => body.height \in 50..300
    /\ Has(body, "weight") => body.weight \in 20..500

\* the error updateUser throws for row id and updateData, or "none"
UpdateUserError(id, updateData) ==
    IF id \notin Ids THEN "NotFoundError"
    ELSE IF /\ Has(updateData, "email")
            /\ updateData.email # users[id].email
            /\ FindByEmail(updateData.email) # {}
    THEN "ConflictError"
    ELSE IF /\ Has(updateData, "username")
            /\ updateData.username # users[id].username
            /\ FindByUsername(updateData.username) # {}
    THEN "ConflictError"
    ELSE IF UpdateError(id, updateData) = "SequelizeValidationError" THEN "ValidationError"
    ELSE UpdateError(id, updateData)

\* a handler that forgets to delete updateData.emailVerificationToken
StripSensitive_KeepsToken(updateData) ==
    [f \in DOMAIN updateData \ {"password", "role", "isEmailVerified"} |-> updateData[f]]
\* a handler that forgets to delete updateData.role
StripSensitive_KeepsRole(updateData) ==
    [f \in DOMAIN updateData \ {"password", "isEmailVerified",
                                "emailVerificationToken"} |-> updateData[f]]
\* delete updateData.password / role / isEmailVerified / emailVerificationToken
StripSensitive(updateData) ==
    [f \in DOMAIN updateData \ {"password", "role", "isEmailVerified",
                                "emailVerificationToken"} |-> updateData[f]]

UpdateProfile(header, body) ==
    LET id == Identity(header).id
        updateData == StripSensitive(ProfileBody(body))
    IN  /\ UNCHANGED <<now, ticks, rnd, jwts, redeemed, spent, verified, reqs>>
        /\ IF AuthenticateError(header) # "none"
           THEN /\ resp' = Response("updateProfile", AuthenticateError(header),
                                    AuthenticateMessage(header), 0)
                /\ UNCHANGED users
           ELSE IF ~ProfileBodyOk(body)
           THEN /\ resp' = Response("updateProfile", "ValidationError", "Validation failed", id)
                /\ UNCHANGED users
           ELSE IF UpdateUserError(id, updateData) # "none"
           THEN /\ resp' = Response("updateProfile", UpdateUserError(id, updateData), "", id)
                /\ UNCHANGED users
           ELSE /\ users' = Updated(id, updateData)
                /\ resp' = Response("updateProfile", "none", "Profile updated successfully", id)

\* PUT /users/:id: authenticate, authorize('admin'), validateProfileUpdate
AdminUpdateUser(header, id, body) ==
    LET updateData == ProfileBody(body)
    IN  /\ UNCHANGED <<now, ticks, rnd, jwts, redeemed, spent, verified, reqs>>
        /\ IF AuthorizeError(header, {"admin"}) # "none"
           THEN /\ resp' = Response("updateUser", AuthorizeError(header, {"admin"}), "", 0)
                /\ UNCHANGED users
           ELSE IF ~ProfileBodyOk(body)
           THEN /\ resp' = Response("updateUser", "ValidationError", "Validation failed", id)
                /\ UNCHANGED users
           ELSE IF UpdateUserError(id, updateData) # "none"
           THEN /\ resp' = Response("updateUser", UpdateUserError(id, updateData), "", id)
                /\ UNCHANGED users
           ELSE /\ users' = Updated(id, updateData)
                /\ resp' = Response("updateUser", "none", "User updated successfully", id)

(***************************************************************************)
(* DELETE /users/:id: authenticate, authorize('admin'),                    *)
(* UserController.deleteUser, UserService.deleteUser.                      *)
(***************************************************************************)
\* a delete that removes the row (user.destroy())
DeleteUser_Destroy(header, id) ==
    /\ UNCHANGED <<now, ticks, rnd, jwts, redeemed, spent, verified, reqs>>
    /\ IF AuthorizeError(header, {"admin"}) # "none"
       THEN /\ resp' = Response("deleteUser", AuthorizeError(header, {"admin"}), "", 0)
            /\ UNCHANGED users
       ELSE IF id \notin Ids
       THEN /\ resp' = Response("deleteUser", "NotFoundError", "User not found", 0)
            /\ UNCHANGED users
       ELSE /\ users' = SubSeq(users, 1, id - 1) \o SubSeq(users, id + 1, Len(users))
            /\ resp' = Response("deleteUser", "none", "User deleted successfully", id)

DeleteUser(header, id) ==
    /\ UNCHANGED <<now, ticks, rnd, jwts, redeemed, spent, verified, reqs>>
    /\ IF AuthorizeError(header, {"admin"}) # "none"
       THEN /\ resp' = Response("deleteUser", AuthorizeError(header, {"admin"}), "", 0)
            /\ UNCHANGED users
       ELSE IF id \notin Ids
       THEN /\ resp' = Response("deleteUser", "NotFoundError", "User not found", 0)
            /\ UNCHANGED users
       ELSE /\ users' = Updated(id, [isActive |-> FALSE])
            /\ resp' = Response("deleteUser", "none", "User deleted successfully", id)

(***************************************************************************)
(* POST /refresh-token: UserController.refreshToken,                       *)
(* UserService.refreshAccessToken.                                         *)
(***************************************************************************)
\* a refresh that does not look at isActive
RefreshError_AnyAccount(token) ==
    IF Verify(token, JWT_REFRESH_SECRET) # "none" THEN Verify(token, JWT_REFRESH_SECRET)
    ELSE IF token.type # "refresh" THEN "ValidationError"
    ELSE IF token.id \notin Ids THEN "ValidationError"
    ELSE "none"
\* the error refreshAccessToken raises inside its try block, or "none"
RefreshError(token) ==
    IF Verify(token, JWT_REFRESH_SECRET) # "none" THEN Verify(token, JWT_REFRESH_SECRET)
    ELSE IF token.type # "refresh" THEN "ValidationError"
    ELSE IF token.id \notin Ids \/ ~users[token.id].isActive THEN "ValidationError"
    ELSE "none"

\* redeemed keeps the refresh tokens that were exchanged for a different one
Refresh(token) ==
    /\ UNCHANGED <<users, now, ticks, rnd, spent, verified, reqs>>
    /\ IF RefreshError(token) # "none"
       THEN /\ resp' = ResponseT("refresh", "ValidationError", "Invalid refresh token",
                                 0, token)
            /\ UNCHANGED <<jwts, redeemed>>
       ELSE /\ jwts' = jwts \cup
                  { GenerateAccessToken(token.id, users[token.id].email, users[token.id].role),
                    GenerateRefreshToken(token.id) }
            /\ Cardinality(jwts') <= MaxJwts
            /\ redeemed' = (redeemed \cup {token}) \ {GenerateRefreshToken(token.id)}
            /\ resp' = ResponseT("refresh", "none", "Token refreshed successfully",
                                 token.id, token)

(***************************************************************************)
(* Specifications.                                                         *)
(***************************************************************************)
Init ==
    /\ users = <<>>
    /\ now = 0
    /\ ticks = 0
    /\ rnd = 0
    /\ resp = Response("none", "none", "", 0)
    /\ jwts = {}
    /\ redeemed = {}
    /\ spent = {}
    /\ verified = {}
    /\ reqs = [r \in Requests |-> Idle]

\* the row the seeder 20251024-admin-user inserts: the table after db:seed
AdminPassword == "Admin@123!"
AdminRow ==
    [ email |-> "admin@icoach.com",
      username |-> "admin",
      lastName |-> "User",
      password |-> HashPassword(AdminPassword),
      authProvider |-> "regular",
      isActive |-> TRUE,
      isEmailVerified |-> TRUE,
      emailVerificationToken |-> NULL,
      passwordResetToken |-> NULL,
      passwordResetExpires |-> NULL,
      lastLogin |-> NULL,
      height |-> NULL,
      weight |-> NULL,
      bmi |-> NULL,
      role |-> "admin" ]

InitSeeded ==
    /\ users = <<AdminRow>>
    /\ now = 0
    /\ ticks = 0
    /\ rnd = 0
    /\ resp = Response("none", "none", "", 0)
    /\ jwts = {}
    /\ redeemed = {}
    /\ spent = {}
    /\ verified = {}
    /\ reqs = [r \in Requests |-> Idle]

\* the tokens a client can put into a request: those the server has drawn so
\* far and one of the client's own making
TokenInputs == {ClientToken} \cup 1..rnd

\* the Authorization headers built from the tokens issued so far
Headers == {Bearer(t) : t \in jwts}

\* further fields a registration body may carry besides the validated ones
RegisterExtras ==
    { <<>>,
      [isActive |-> FALSE],
      [isEmailVerified |-> TRUE] }

\* The credential lifecycle: registration, Google sign-in, login, password
\* reset, password change and e-mail verification.
Next ==
    \/ \E e \in EmailInputs, n \in {"alice", "bob"}, x \in RegisterExtras :
          Register(e, n, "Passw0rd!", x)
    \/ \E e \in OAuthEmails, f \in FamilyNames : OAuthLogin(e, f)
    \/ \E x \in EmailInputs \cup UsernameInputs, p \in Passwords : Login(x, p)
    \/ \E e \in EmailInputs : RequestPasswordReset(e)
    \/ \E t \in TokenInputs, p \in Passwords : ResetPassword(t, p)
    \/ \E h \in Headers, c, p \in Passwords : ChangePassword(h, c, p)
    \/ \E t \in TokenInputs : VerifyEmail(t)

Spec == Init /\ [][Next]_vars

\* Password reset against the clock: registration (a body may carry reset
\* fields of its own), reset requests, resets and the passage of time.
ResetExtras ==
    { <<>>,
      [passwordResetToken |-> ClientToken],
      [passwordResetToken |-> ClientToken, passwordResetExpires |-> FarFuture] }

TickSteps == {ResetTTL - 1000, 1000}

NextReset ==
    \/ \E d \in TickSteps : Tick(d)
    \/ \E a \in {<<"a@x.io", "alice">>, <<"b.c@x.io", "bob">>}, x \in ResetExtras :
          Register(a[1], a[2], "Passw0rd!", x)
    \/ \E e \in {"A@x.io", "b.c@x.io"} : RequestPasswordReset(e)
    \/ \E t \in TokenInputs, p \in Passwords : ResetPassword(t, p)

SpecReset == Init /\ [][NextReset]_vars

\* Concurrent resets: the handler of POST /reset-password as the two steps
\* between its awaits, for two requests in flight.
NextRace ==
    \/ Register("a@x.io", "alice", "Passw0rd!", <<>>)
    \/ \E e \in {"a@x.io", "b.c@x.io"} : RequestPasswordReset(e)
    \/ \E r \in Requests, t \in TokenInputs, p \in Passwords : ResetFind(r, t, p)
    \/ \E r \in Requests : ResetUpdate(r)

SpecRace == Init /\ [][NextRace]_vars

\* Sessions: login, refresh, deactivation by an administrator, reactivation
\* and the passage of time, on the seeded table.
RefreshInputs ==
    jwts \cup {ServiceRefreshToken(i, users[i].email, users[i].role) : i \in Ids}

NextSession ==
    \/ Tick(1000)
    \/ Register("a@x.io", "alice", "Passw0rd!", <<>>)
    \/ \E x \in {"alice", "admin"}, p \in {"Passw0rd!", AdminPassword} : Login(x, p)
    \/ \E t \in RefreshInputs : Refresh(t)
    \/ \E h \in Headers, i \in 1..(Len(users) + 1) : DeleteUser(h, i)
    \/ \E h \in Headers, i \in Ids : AdminUpdateUser(h, i, [isActive |-> TRUE])

SpecSession == InitSeeded /\ [][NextSession]_vars

\* Profiles: an account edits itself with bodies that carry more than the
\* validated profile fields.
ProfileBodies ==
    { [lastName |-> "Poe"],
      [role |-> "admin", lastName |-> "Roe"],
      [password |-> "N3w!pass"],
      [isEmailVerified |-> TRUE, emailVerificationToken |-> ClientToken],
      [isEmailVerified |-> FALSE],
      [authProvider |-> "google"],
      [username |-> "bob"] }

NextProfile ==
    \/ \E a \in {<<"a@x.io", "alice">>, <<"b.c@x.io", "bob">>} :
          Register(a[1], a[2], "Passw0rd!", <<>>)
    \/ \E x \in {"alice", "bob"}, p \in Passwords : Login(x, p)
    \/ \E t \in TokenInputs : VerifyEmail(t)
    \/ \E h \in Headers \cup {NoHeader}, b \in ProfileBodies : UpdateProfile(h, b)

SpecProfile == Init /\ [][NextProfile]_vars

\* Self-service against administration: an account edits itself with bodies
\* that carry lifecycle and token fields, an administrator deletes and edits.
SelfServiceBodies ==
    { [lastName |-> "Poe"],
      [isActive |-> TRUE],
      [emailVerificationToken |-> ClientToken],
      [passwordResetToken |-> ClientToken, passwordResetExpires |-> FarFuture] }

NextSelfService ==
    \/ Register("a@x.io", "alice", "Passw0rd!", <<>>)
    \/ Login("alice", "Passw0rd!")
    \/ Login("admin", AdminPassword)
    \/ \E h \in Headers \cup {NoHeader}, b \in SelfServiceBodies : UpdateProfile(h, b)
    \/ \E h \in Headers, i \in Ids, b \in SelfServiceBodies : AdminUpdateUser(h, i, b)
    \/ \E h \in Headers, i \in Ids : DeleteUser(h, i)

SpecSelfService == InitSeeded /\ [][NextSelfService]_vars

\* E-mail verification: registration and profile updates whose bodies carry a
\* verification token of the client's choosing, logins and verifications.
VerifyBodies == {[emailVerificationToken |-> t] : t \in TokenInputs}

NextVerify ==
    \/ \E a \in {<<"a@x.io", "alice">>, <<"b.c@x.io", "bob">>}, x \in {<<>>} \cup VerifyBodies :
          Register(a[1], a[2], "Passw0rd!", x)
    \/ \E x \in {"alice", "bob"} : Login(x, "Passw0rd!")
    \/ \E h \in Headers, b \in VerifyBodies : UpdateProfile(h, b)
    \/ \E t \in TokenInputs : VerifyEmail(t)

SpecVerify == Init /\ [][NextVerify]_vars

\* Google sign-in beside registration: the addresses Google may hand over,
\* in any letter case, with and without a family name, and the clock.
NextOAuth ==
    \/ Tick(1000)
    \/ \E a \in {<<"a@x.io", "alice">>, <<"b.c@x.io", "bob">>} :
          Register(a[1], a[2], "Passw0rd!", <<>>)
    \/ \E e \in EmailInputs, f \in FamilyNames : OAuthLogin(e, f)
    \/ \E x \in EmailInputs, p \in Passwords : Login(x, p)

SpecOAuth == Init /\ [][NextOAuth]_vars

\* Passwords: every operation that stores or checks a password.
NextPassword ==
    \/ \E q \in Passwords : Register("a@x.io", "alice", q, <<>>)
    \/ \E q \in Passwords : Login("alice", q)
    \/ Login("admin", AdminPassword)
    \/ RequestPasswordReset("a@x.io")
    \/ \E t \in TokenInputs, q \in Passwords : ResetPassword(t, q)
    \/ \E h \in Headers \cup {NoHeader}, c, q \in Passwords : ChangePassword(h, c, q)
    \/ \E h \in Headers, i \in Ids, q \in Passwords : AdminUpdateUser(h, i, [password |-> q])

SpecPassword == InitSeeded /\ [][NextPassword]_vars

\* Access control: every header a client can send (none, no token, another
\* scheme, issued tokens of both kinds, fresh and expired, and a token signed
\* with a guessed secret) against the routes behind authenticate.
ForgedToken ==
    [sig |-> "guessed-secret", type |-> "undefined", id |-> 1,
     email |-> "admin@icoach.com", role |-> "admin", exp |-> FarFuture]

AccessHeaders ==
    {NoHeader, Bearer(NoToken), Bearer(ForgedToken)}
        \cup {Bearer(t) : t \in jwts} \cup {Basic(t) : t \in jwts}

ExpirySteps == {AccessTTL * 1000 - 1000, 1000}

\* the clock runs until the tokens issued at the start have expired
NextAuth ==
    \/ \E d \in ExpirySteps : now < AccessTTL * 1000 /\ Tick(d)
    \/ Register("a@x.io", "alice", "Passw0rd!", <<>>)
    \/ Login("alice", "Passw0rd!")
    \/ \E h \in AccessHeaders : GetProfile(h)
    \/ \E h \in AccessHeaders : UpdateProfile(h, [lastName |-> "Poe"])
    \/ \E h \in AccessHeaders : ChangePassword(h, "Passw0rd!", "Passw0rd!")

SpecAuth == Init /\ [][NextAuth]_vars

\* Authorization: the routes behind authorize('admin') and
\* authorizeOwnerOrAdmin, for the identities of an administrator and of a
\* registered account.
NextAccess ==
    \/ Register("a@x.io", "alice", "Passw0rd!", <<>>)
    \/ Login("alice", "Passw0rd!")
    \/ Login("admin", AdminPassword)
    \/ \E h \in Headers \cup {NoHeader}, i \in 0..(Len(users) + 1) : GetUserById(h, i)
    \/ \E h \in Headers \cup {NoHeader} : GetAllUsers(h)
    \/ \E h \in Headers \cup {NoHeader}, i \in 1..(Len(users) + 1) :
          AdminUpdateUser(h, i, [lastName |-> "Poe"])
    \/ \E h \in Headers \cup {NoHeader}, i \in 1..(Len(users) + 1) : DeleteUser(h, i)

SpecAccess == InitSeeded /\ [][NextAccess]_vars

\* Body metrics: registration and profile updates whose bodies carry height,
\* weight and bmi.
BodyExtras ==
    { <<>>, [height |-> 180, weight |-> 80], [height |-> 180], [bmi |-> 3000] }

BodyBodies ==
    { [height |-> 170], [weight |-> 80], [weight |-> 60], [weight |-> NULL],
      [bmi |-> 1234], [lastName |-> "Poe"] }

NextBody ==
    \/ \E x \in BodyExtras : Register("a@x.io", "alice", "Passw0rd!", x)
    \/ Login("alice", "Passw0rd!")
    \/ \E h \in Headers, b \in BodyBodies : UpdateProfile(h, b)

SpecBody == Init /\ [][NextBody]_vars

\* the account objects in the data of the last response: user.toJSON() of the
\* row the handler ended with, rows.map(toJSON) for the listing
ResponseData ==
    IF resp.err # "none" THEN {}
    ELSE IF resp.op \in {"register", "login", "resetPassword", "verifyEmail", "getProfile",
                         "updateProfile", "getUserById", "updateUser"}
    THEN {ToJSON(users[resp.uid])}
    ELSE IF resp.op = "getAllUsers"
    THEN {ToJSON(users[i]) : i \in {j \in Ids : users[j].isActive}}
    ELSE {}

\* Responses: every operation that answers with an account object.
NextData ==
    \/ Register("a@x.io", "alice", "Passw0rd!", <<>>)
    \/ Login("alice", "Passw0rd!")
    \/ Login("admin", AdminPassword)
    \/ RequestPasswordReset("a@x.io")
    \/ \E t \in TokenInputs : ResetPassword(t, "Passw0rd!")
    \/ \E t \in TokenInputs : VerifyEmail(t)
    \/ \E h \in Headers : GetProfile(h)
    \/ \E h \in Headers : UpdateProfile(h, [lastName |-> "Poe"])
    \/ \E h \in Headers, i \in Ids : GetUserById(h, i)
    \/ \E h \in Headers : GetAllUsers(h)
    \/ \E h \in Headers, i \in Ids : AdminUpdateUser(h, i, [lastName |-> "Poe"])

SpecData == InitSeeded /\ [][NextData]_vars

\* Concurrent registrations: the handler of POST /register as the steps
\* between its awaits, for two requests in flight, beside logins.
RaceAccounts ==
    { <<"a@x.io", "alice">>, <<"A@x.io", "bob">>, <<"b.c@x.io", "Alice">> }

NextRegisterRace ==
    \/ \E r \in Requests, a \in RaceAccounts : RegisterFindEmail(r, a[1], a[2], "Passw0rd!")
    \/ \E r \in Requests : RegisterFindUsername(r)
    \/ \E r \in Requests : RegisterCreate(r)
    \/ \E r \in Requests : RegisterSetToken(r)
    \/ \E x \in {"a@x.io", "bob", "alice"} : Login(x, "Passw0rd!")
    \/ \E t \in TokenInputs : VerifyEmail(t)

SpecRegisterRace == Init /\ [][NextRegisterRace]_vars

\* Roles: what a client without an administrator's token can do, with
\* bodies that name a role.
RoleExtras == { <<>>, [role |-> "coach"], [role |-> "admin"] }

NextRole ==
    \/ \E x \in RoleExtras : Register("a@x.io", "alice", "Passw0rd!", x)
    \/ Login("alice", "Passw0rd!")
    \/ \E t \in jwts : Refresh(t)
    \/ \E h \in Headers, x \in RoleExtras \ {<<>>} : UpdateProfile(h, x)
    \/ \E h \in Headers : ChangePassword(h, "Passw0rd!", "N3w!pass")
    \/ RequestPasswordReset("a@x.io")
    \/ \E t \in TokenInputs : ResetPassword(t, "Passw0rd!")
    \/ \E t \in TokenInputs : VerifyEmail(t)

SpecRole == Init /\ [][NextRole]_vars

\* Reset tokens of one account: requests, resets, and profile updates whose
\* bodies carry reset fields with any token the client has seen.
ReissueBodies ==
    {[passwordResetToken |-> t, passwordResetExpires |-> FarFuture] : t \in TokenInputs}

NextReissue ==
    \/ Register("a@x.io", "alice", "Passw0rd!", <<>>)
    \/ Login("alice", "Passw0rd!")
    \/ RequestPasswordReset("a@x.io")
    \/ \E t \in TokenInputs, q \in Passwords : ResetPassword(t, q)
    \/ \E h \in Headers, b \in ReissueBodies : UpdateProfile(h, b)

SpecReissue == Init /\ [][NextReissue]_vars

\* Identities: every operation that stores or changes an e-mail address or a
\* user name.
IdentityBodies ==
    {[email |-> e] : e \in EmailInputs} \cup {[username |-> n] : n \in UsernameInputs}

NextIdentity ==
    \/ \E e \in EmailInputs, n \in UsernameInputs : Register(e, n, "Passw0rd!", <<>>)
    \/ \E e \in OAuthEmails : OAuthLogin(e, "Doe")
    \/ \E x \in UsernameInputs : Login(x, "Passw0rd!")
    \/ Login("admin", AdminPassword)
    \/ \E h \in Headers, b \in IdentityBodies : UpdateProfile(h, b)
    \/ \E h \in Headers, i \in 1..(Len(users) + 1), b \in IdentityBodies :
          AdminUpdateUser(h, i, b)

SpecIdentity == InitSeeded /\ [][NextIdentity]_vars

(***************************************************************************)
(* C1: an account's password is null exactly when its authProvider is       *)
(* 'google', and no login with a password succeeds for a Google account.   *)
(***************************************************************************)
C1_OAuthHasNoPassword ==
    /\ \A i \in Ids : (users[i].password = NoPassword) <=> (users[i].authProvider = "google")
    /\ (resp.op = "login" /\ resp.err = "none") => users[resp.uid].authProvider # "google"

(***************************************************************************)
(* C2: no two accounts share an e-mail address or a user name, compared    *)
(* without regard to letter case, and a registration whose e-mail address  *)
(* or user name is taken in any letter case ends with ConflictError and    *)
(* stores nothing.                                                         *)
(***************************************************************************)
NoSharedIdentity ==
    \A i, j \in Ids :
        i # j => /\ ToLowerCase(users[i].email) # ToLowerCase(users[j].email)
                 /\ ToLowerCase(users[i].username) # ToLowerCase(users[j].username)

Taken(e, n) ==
    \E i \in Ids : \/ ToLowerCase(users[i].email) = ToLowerCase(e)
                    \/ ToLowerCase(users[i].username) = ToLowerCase(n)

RegisterTakenConflicts ==
    \A e \in EmailInputs, n \in UsernameInputs :
        (resp'.op = "register" /\ Register(e, n, "Passw0rd!", <<>>) /\ Taken(e, n))
            => /\ resp'.op = "register"
               /\ resp'.err = "ConflictError"
               /\ users' = users

C2_UniqueIdentities == []NoSharedIdentity /\ [][RegisterTakenConflicts]_vars

\* a registration with a free e-mail address was refused for its user name,
\* which a registered account holds
C2_Witness ==
    /\ resp.op = "register"
    /\ resp.err = "ConflictError"
    /\ resp.msg = "Username already exists"
    /\ \E i \in Ids : users[i].role = "user" /\ users[i].username \in UsernameInputs

(***************************************************************************)
(* C3: a reset with token t at instant now succeeds exactly when some      *)
(* account holds t as its passwordResetToken with passwordResetExpires     *)
(* strictly later than now; a reset request sets the expiry to the instant *)
(* of the request plus ten minutes, so the reset fails at the expiry       *)
(* instant itself and later.                                               *)
(***************************************************************************)
ResetSucceedsIffUnexpired ==
    \A t \in TokenInputs, p \in Passwords :
        (resp'.op = "resetPassword" /\ ResetPassword(t, p)) =>
            ( (resp'.err = "none") <=>
              \E i \in Ids : /\ users[i].passwordResetToken = t
                             /\ users[i].passwordResetExpires # NULL
                             /\ now < users[i].passwordResetExpires )

RequestSetsTenMinutes ==
    \A e \in EmailInputs :
        (resp'.op = "forgotPassword" /\ RequestPasswordReset(e) /\ resp'.err = "none") =>
            /\ users'[resp'.uid].passwordResetToken = rnd'
            /\ users'[resp'.uid].passwordResetExpires = now + 600000

ResetTokenSingleUse ==
    \A t \in TokenInputs, p \in Passwords :
        ResetPassword(t, p) =>
            /\ (resp'.err = "none") =>
                   /\ users'[resp'.uid].passwordResetToken = NULL
                   /\ users'[resp'.uid].passwordResetExpires = NULL
            /\ (t \in spent) =>
                   /\ resp'.err = "ValidationError"
                   /\ \A i \in Ids : users'[i].password = users[i].password

C4_ResetTokenSingleUse == [][ResetTokenSingleUse]_vars

(***************************************************************************)
(* C5: of two resets that carry the same token and interleave between      *)
(* finding the account and updating it, at most one succeeds, and the      *)
(* stored password is the one the successful request set.                  *)
(***************************************************************************)
C5_ConcurrentResetOneWinner ==
    \A r, q \in Requests :
        (r # q /\ reqs[r].pc = "done" /\ reqs[q].pc = "done"
               /\ reqs[r].token = reqs[q].token /\ reqs[r].err = "none")
            => /\ reqs[q].err # "none"
               /\ users[reqs[r].row].password = HashPassword(reqs[r].password)

LoginOnlyActive ==
    \A x \in {"alice", "admin"}, p \in {"Passw0rd!", AdminPassword} :
        (Login(x, p) /\ resp'.err = "none")
            => resp'.uid \in Ids /\ users[resp'.uid].isActive

RefreshOnlyActive ==
    \A t \in RefreshInputs :
        (Refresh(t) /\ resp'.err = "none")
            => resp'.uid \in Ids /\ users[resp'.uid].isActive

TokensOnlyOnSuccess ==
    (jwts' # jwts) =>
        /\ resp'.op \in {"login", "refresh"}
        /\ resp'.err = "none"
        /\ \A t \in jwts' \ jwts : t.id = resp'.uid

DeleteDeactivates ==
    \A h \in Headers, i \in Ids :
        (DeleteUser(h, i) /\ resp'.err = "none") => ~users'[i].isActive

C7_TokensOnlyForActive ==
    [][LoginOnlyActive /\ RefreshOnlyActive /\ TokensOnlyOnSuccess /\ DeleteDeactivates]_vars

\* a refresh token that verifies was refused because its account is deleted
C7_Witness ==
    /\ resp.op = "refresh"
    /\ resp.err = "ValidationError"
    /\ resp.token.type = "refresh"
    /\ Verify(resp.token, JWT_REFRESH_SECRET) = "none"
    /\ resp.token.id \in Ids
    /\ ~users[resp.token.id].isActive

(***************************************************************************)
(* C8: once a refresh token has been exchanged for a new pair, the new     *)
(* refresh token is accepted by the refresh operation and the exchanged    *)
(* one is refused when it is presented again.                              *)
(***************************************************************************)
ReplayRefused ==
    \A t \in RefreshInputs :
        (Refresh(t) /\ t \in redeemed) => resp'.err # "none"

RotatedTokenWorks ==
    \A t \in RefreshInputs :
        (Refresh(t) /\ resp'.err = "none")
            => \E n \in jwts' : /\ n = GenerateRefreshToken(t.id)
                                 /\ RefreshError(n) = "none"

C8_RotationRetiresOld == [][ReplayRefused /\ RotatedTokenWorks]_vars

(***************************************************************************)
(* C9: every successful registration leaves an active, unverified account  *)
(* that holds a freshly drawn e-mail verification token.                   *)
(***************************************************************************)
C9_RegisterDefaults ==
    (resp.op = "register" /\ resp.err = "none") =>
        /\ users[resp.uid].isActive = TRUE
        /\ users[resp.uid].isEmailVerified = FALSE
        /\ users[resp.uid].emailVerificationToken = rnd

(***************************************************************************)
(* C10: PUT /profile, whatever its body carries, leaves the stored role,   *)
(* password hash and isEmailVerified of every account as they were.        *)
(***************************************************************************)
ProfileKeepsCredentials ==
    \A h \in Headers \cup {NoHeader}, b \in ProfileBodies :
        (resp'.op = "updateProfile" /\ UpdateProfile(h, b)) =>
            /\ Len(users') = Len(users)
            /\ \A i \in Ids : /\ users'[i].role = users[i].role
                               /\ users'[i].password = users[i].password
                               /\ users'[i].isEmailVerified = users[i].isEmailVerified

C10_ProfileKeepsCredentials == [][ProfileKeepsCredentials]_vars

\* a profile update whose body carried a role went through: the last name
\* it carried is stored, the role is still 'user'
C10_Witness ==
    /\ resp.op = "updateProfile"
    /\ resp.err = "none"
    /\ users[resp.uid].lastName = "Roe"
    /\ users[resp.uid].role = "user"

(***************************************************************************)
(* C11: no PUT /profile request changes isActive of any account, also not  *)
(* one authenticated with a token issued before the account was deleted;   *)
(* isActive changes only through the administrator's update and delete     *)
(* routes.                                                                 *)
(***************************************************************************)
ProfileKeepsActive ==
    \A h \in Headers \cup {NoHeader}, b \in SelfServiceBodies :
        (resp'.op = "updateProfile" /\ UpdateProfile(h, b)) =>
            \A i \in Ids : users'[i].isActive = users[i].isActive

ActiveOnlyByAdmin ==
    \A i \in Ids :
        (users'[i].isActive # users[i].isActive) => resp'.op \in {"updateUser", "deleteUser"}

C11_SelfServiceKeepsActive == [][ProfileKeepsActive /\ ActiveOnlyByAdmin]_vars

(***************************************************************************)
(* C12: no PUT /profile request changes the emailVerificationToken, the    *)
(* passwordResetToken or the passwordResetExpires of any account, whatever *)
(* its body carries.                                                       *)
(***************************************************************************)
ProfileKeepsTokens ==
    \A h \in Headers \cup {NoHeader}, b \in SelfServiceBodies :
        (resp'.op = "updateProfile" /\ UpdateProfile(h, b)) =>
            \A i \in Ids :
                /\ users'[i].emailVerificationToken = users[i].emailVerificationToken
                /\ users'[i].passwordResetToken = users[i].passwordResetToken
                /\ users'[i].passwordResetExpires = users[i].passwordResetExpires

C12_ProfileKeepsTokens == [][ProfileKeepsTokens]_vars

(***************************************************************************)
(* C13: POST /forgot-password answers 200 with the same message whether or *)
(* not an account holds the e-mail address; for an unknown address it      *)
(* raises no error and changes no account.                                 *)
(***************************************************************************)
ForgotPasswordUniform ==
    \A e \in EmailInputs :
        (resp'.op = "forgotPassword" /\ RequestPasswordReset(e)) =>
            /\ resp'.err = "none"
            /\ resp'.status = 200
            /\ resp'.msg = "Password reset token generated"
            /\ (FindByEmail(e) = {}) => (users' = users)

C13_ForgotPasswordUniform == [][ForgotPasswordUniform]_vars

(***************************************************************************)
(* C14: a login that fails with a password that does not verify, be it     *)
(* that no account matches the identifier or that the matching account has *)
(* another password, is answered with the one error 'Invalid credentials'. *)
(***************************************************************************)
LoginFailureGeneric ==
    \A x \in {"alice", "admin"}, p \in {"Passw0rd!", AdminPassword} :
        ( /\ resp'.op = "login"
          /\ Login(x, p)
          /\ \A i \in FindByEmail(x) \cup FindByUsername(x) : ~ComparePassword(users[i], p) )
            => /\ resp'.err = "ValidationError"
               /\ resp'.msg = "Invalid credentials"

C14_LoginFailureGeneric == [][LoginFailureGeneric]_vars

(***************************************************************************)
(* C15: a verification with token t succeeds exactly when some account     *)
(* stores t as its emailVerificationToken; it then marks that account      *)
(* verified and clears its token and touches no other account; a failed    *)
(* verification is an invalid-token error that changes nothing; and a      *)
(* token that was accepted once is refused ever after.                     *)
(***************************************************************************)
VerifyOnlyStoredOnce ==
    \A t \in TokenInputs :
        (resp'.op = "verifyEmail" /\ VerifyEmail(t)) =>
            /\ (resp'.err = "none") <=> (\E i \in Ids : users[i].emailVerificationToken = t)
            /\ (resp'.err = "none") =>
                   /\ users[resp'.uid].emailVerificationToken = t
                   /\ users'[resp'.uid].isEmailVerified = TRUE
                   /\ users'[resp'.uid].emailVerificationToken = NULL
                   /\ \A j \in Ids \ {resp'.uid} : users'[j] = users[j]
            /\ (resp'.err # "none") =>
                   /\ resp'.err = "ValidationError"
                   /\ resp'.msg = "Invalid verification token"
                   /\ users' = users
            /\ (t \in verified) => (resp'.err # "none")

OAuthRejectsForeignAccount ==
    \A e \in EmailInputs, f \in FamilyNames :
        ( /\ resp'.op = "oauth"
          /\ OAuthLogin(e, f)
          /\ \E i \in FindByEmail(e) : users[i].authProvider # "google" )
            => /\ resp'.err # "none"
               /\ users' = users

C16_OAuthRejectsForeignAccount == [][OAuthRejectsForeignAccount]_vars

\* a Google sign-in was refused for the address of a registered account,
\* after the clock had advanced beyond that account's last login
C16_Witness ==
    /\ resp.op = "oauth"
    /\ resp.err = "Error"
    /\ resp.uid \in Ids
    /\ users[resp.uid].authProvider = "regular"
    /\ users[resp.uid].password = HashPassword("Passw0rd!")
    /\ users[resp.uid].lastLogin # NULL
    /\ users[resp.uid].lastLogin < now

(***************************************************************************)
(* C17: a Google sign-in for an address no account holds creates exactly   *)
(* one account, of provider 'google', verified, active, of role 'user' and *)
(* without password, whatever the address and the profile; a later Google  *)
(* sign-in for that address creates no account and sets its lastLogin.     *)
(***************************************************************************)
OAuthCreatesOrReuses ==
    \A e \in EmailInputs, f \in FamilyNames :
        (resp'.op = "oauth" /\ OAuthLogin(e, f)) =>
            /\ (FindByEmail(e) = {}) =>
                   /\ resp'.err = "none"
                   /\ Len(users') = Len(users) + 1
                   /\ \A i \in Ids : users'[i] = users[i]
                   /\ users'[Len(users')].authProvider = "google"
                   /\ users'[Len(users')].isEmailVerified = TRUE
                   /\ users'[Len(users')].isActive = TRUE
                   /\ users'[Len(users')].role = "user"
                   /\ users'[Len(users')].password = NoPassword
            /\ (\E i \in FindByEmail(e) : users[i].authProvider = "google") =>
                   /\ resp'.err = "none"
                   /\ Len(users') = Len(users)
                   /\ users'[resp'.uid].lastLogin = now

C17_OAuthCreatesOrReuses == [][OAuthCreatesOrReuses]_vars

(***************************************************************************)
(* C18: after a successful registration, password reset or password       *)
(* change with plaintext p the account stores a hash of p, not p, and      *)
(* comparePassword(p) succeeds; no account ever stores a plaintext.        *)
(***************************************************************************)
NoPlaintextStored ==
    \A i \in Ids : users[i].password = NoPassword \/ users[i].password.alg = "bcrypt"

StoresHashOf(q) ==
    /\ resp'.uid \in 1..Len(users')
    /\ users'[resp'.uid].password = HashPassword(q)
    /\ users'[resp'.uid].password # [alg |-> "plain", of |-> q]
    /\ ComparePassword(users'[resp'.uid], q)

PasswordWritesHash ==
    /\ \A q \in Passwords :
          (resp'.op = "register" /\ resp'.err = "none"
              /\ Register("a@x.io", "alice", q, <<>>)) => StoresHashOf(q)
    /\ \A t \in TokenInputs, q \in Passwords :
          (resp'.op = "resetPassword" /\ resp'.err = "none"
              /\ ResetPassword(t, q)) => StoresHashOf(q)
    /\ \A h \in Headers, c, q \in Passwords :
          (resp'.op = "changePassword" /\ resp'.err = "none"
              /\ ChangePassword(h, c, q)) => StoresHashOf(q)

C18_PasswordsStoredHashed == []NoPlaintextStored /\ [][PasswordWritesHash]_vars

\* a password change has replaced the hash the registration stored
C18_Witness ==
    /\ resp.op = "changePassword"
    /\ resp.err = "none"
    /\ users[resp.uid].role = "user"
    /\ users[resp.uid].password = HashPassword("N3w!pass")
    /\ spent = {}

(***************************************************************************)
(* C19: a password change succeeds only if currentPassword is the password *)
(* whose hash is stored; on mismatch it ends with an error and the stored  *)
(* password is unchanged; after a success the new password's hash is       *)
(* stored, a login succeeds exactly with the password whose hash is        *)
(* stored, so with the new one and not with a different old one.           *)
(***************************************************************************)
ChangeNeedsCurrent ==
    \A h \in Headers \cup {NoHeader}, c, q \in Passwords :
        (resp'.op = "changePassword" /\ ChangePassword(h, c, q)) =>
            /\ (resp'.err = "none") =>
                   /\ AuthenticateError(h) = "none"
                   /\ users[resp'.uid].password = HashPassword(c)
                   /\ users'[resp'.uid].password = HashPassword(q)
                   /\ (c # q) => users'[resp'.uid].password # HashPassword(c)
            /\ (resp'.err # "none") => (users' = users)
            /\ ( /\ AuthenticateError(h) = "none"
                 /\ Identity(h).id \in Ids
                 /\ users[Identity(h).id].password # HashPassword(c) )
                   => resp'.err = "ValidationError"

LoginNeedsStored ==
    \A q \in Passwords :
        (resp'.op = "login" /\ Login("alice", q)) =>
            \A i \in FindByUsername("alice") :
                (resp'.err = "none") <=> (users[i].password = HashPassword(q))

NoRowRemoved == Len(users') >= Len(users)

DeleteOnlyDeactivates ==
    \A h \in Headers, i \in Ids :
        (resp'.op = "deleteUser" /\ resp'.err = "none" /\ DeleteUser(h, i))
            => users' = [users EXCEPT ![i].isActive = FALSE]

C20_DeleteIsSoft == [][NoRowRemoved /\ DeleteOnlyDeactivates]_vars

\* an administrator has deleted a registered account: its row is there,
\* inactive
C20_Witness ==
    /\ resp.op = "deleteUser"
    /\ resp.err = "none"
    /\ resp.uid \in Ids
    /\ users[resp.uid].role = "user"
    /\ ~users[resp.uid].isActive

(***************************************************************************)
(* C21: at every instant an account whose passwordResetToken is not null   *)
(* has a passwordResetExpires later than the clock, and the account a      *)
(* reset has just succeeded for has both columns null; so a token whose    *)
(* expiry has passed, or that was consumed, is no longer stored.           *)
(***************************************************************************)
C21_ResetTokenLive ==
    /\ \A i \in Ids :
          users[i].passwordResetToken # NULL
              => /\ users[i].passwordResetExpires # NULL
                 /\ users[i].passwordResetExpires > now
    /\ (resp.op = "resetPassword" /\ resp.err = "none")
          => /\ users[resp.uid].passwordResetToken = NULL
             /\ users[resp.uid].passwordResetExpires = NULL

(***************************************************************************)
(* C22: a route behind authenticate runs its handler, for the identity the *)
(* token names, only when the request carries an Authorization header of   *)
(* the Bearer scheme whose token is signed with the access secret and has  *)
(* not expired; every other request ends with UnauthorizedError (401),     *)
(* reaches no handler and changes nothing, and an expired token is         *)
(* answered with another message than an invalid one.                      *)
(***************************************************************************)
Admissible(h) ==
    /\ h.scheme = "Bearer"
    /\ h.token # NoToken
    /\ h.token.sig = JWT_SECRET
    /\ Seconds(now) < h.token.exp

ExpiredToken(h) ==
    /\ h.scheme = "Bearer"
    /\ h.token # NoToken
    /\ h.token.sig = JWT_SECRET
    /\ Seconds(now) >= h.token.exp

InvalidToken(h) ==
    /\ h.scheme = "Bearer"
    /\ h.token # NoToken
    /\ h.token.sig # JWT_SECRET

AdmittedOrRefused(h) ==
    IF Admissible(h)
    THEN /\ resp'.err # "UnauthorizedError"
         /\ resp'.uid = h.token.id
    ELSE /\ resp'.err = "UnauthorizedError"
         /\ resp'.status = 401
         /\ resp'.uid = 0
         /\ users' = users
         /\ ExpiredToken(h) => resp'.msg = "Authentication token has expired"
         /\ InvalidToken(h) => resp'.msg = "Invalid authentication token"

AuthenticateFailsClosed ==
    \A h \in AccessHeaders :
        /\ (resp'.op = "getProfile" /\ GetProfile(h)) => AdmittedOrRefused(h)
        /\ (resp'.op = "updateProfile" /\ UpdateProfile(h, [lastName |-> "Poe"]))
              => AdmittedOrRefused(h)
        /\ (resp'.op = "changePassword" /\ ChangePassword(h, "Passw0rd!", "Passw0rd!"))
              => AdmittedOrRefused(h)

IsAdmin(h) == Admissible(h) /\ h.token.role = "admin"
IsOwnerOrAdmin(h, i) == Admissible(h) /\ (h.token.role = "admin" \/ h.token.id = i)

Refused(h) ==
    /\ resp'.err = IF Admissible(h) THEN "ForbiddenError" ELSE "UnauthorizedError"
    /\ resp'.status = IF Admissible(h) THEN 403 ELSE 401
    /\ users' = users

AdminOnly ==
    \A h \in Headers \cup {NoHeader}, i \in 1..(Len(users) + 1) :
        /\ (resp'.op = "getAllUsers" /\ GetAllUsers(h))
              => IF IsAdmin(h) THEN resp'.err = "none" ELSE Refused(h)
        /\ (resp'.op = "updateUser" /\ AdminUpdateUser(h, i, [lastName |-> "Poe"]))
              => IF IsAdmin(h) THEN resp'.err \in {"none", "NotFoundError"} ELSE Refused(h)
        /\ (resp'.op = "deleteUser" /\ DeleteUser(h, i))
              => IF IsAdmin(h) THEN resp'.err \in {"none", "NotFoundError"} ELSE Refused(h)

OwnerOrAdmin ==
    \A h \in Headers \cup {NoHeader}, i \in 1..(Len(users) + 1) :
        (resp'.op = "getUserById" /\ GetUserById(h, i))
            => IF IsOwnerOrAdmin(h, i)
               THEN /\ resp'.err \in {"none", "NotFoundError"}
                    /\ resp'.err = "none" => resp'.uid = i
               ELSE Refused(h)

C23_RoleAndOwnership == [][AdminOnly /\ OwnerOrAdmin]_vars

\* a registered account asked for another account by id and was refused
C23_Witness ==
    /\ resp.op = "getUserById"
    /\ resp.err = "ForbiddenError"
    /\ \E t \in jwts : t.role = "user" /\ t.id \in Ids /\ users[t.id].role = "user"

(***************************************************************************)
(* C24: in every state an account's bmi is null when its height or its     *)
(* weight is null, and otherwise is its weight divided by the square of    *)
(* its height in metres, rounded to two decimals (24.69 for 180 cm and     *)
(* 80 kg); so it follows every change of height or weight, and a null      *)
(* weight clears it.                                                       *)
(***************************************************************************)
C24_BmiDerived ==
    /\ CalculateBMI(180, 80) = 2469
    /\ \A i \in Ids :
          users[i].bmi =
              IF users[i].height = NULL \/ users[i].weight = NULL
              THEN NULL
              ELSE (2 * users[i].weight * 1000000 + users[i].height * users[i].height)
                       \div (2 * users[i].height * users[i].height)

(***************************************************************************)
(* C25: no account object in the data of a response of register, login,    *)
(* reset password, verify e-mail, getProfile, updateProfile, getUserById,  *)
(* getAllUsers or updateUser carries the account's password hash, its      *)
(* emailVerificationToken or its passwordResetToken.                       *)
(***************************************************************************)
C25_ResponsesSanitized ==
    \A d \in ResponseData :
        DOMAIN d \cap {"password", "emailVerificationToken", "passwordResetToken"} = {}

\* an account that holds a password hash, a verification token and a reset
\* token has logged in and was sent its account object
C25_Witness ==
    /\ resp.op = "login"
    /\ resp.err = "none"
    /\ ResponseData # {}
    /\ users[resp.uid].password # NoPassword
    /\ users[resp.uid].emailVerificationToken # NULL
    /\ users[resp.uid].passwordResetToken # NULL

(***************************************************************************)
(* C26: of two registrations that name the same e-mail address or the same *)
(* user name, in any letter case, and run at once, exactly one stores an   *)
(* account and the other ends with status 409; at no time do two accounts  *)
(* share an e-mail address or a user name.                                 *)
(***************************************************************************)
SameIdentity ==
    \/ ToLowerCase(reqs[1].email) = ToLowerCase(reqs[2].email)
    \/ ToLowerCase(reqs[1].username) = ToLowerCase(reqs[2].username)

C26_ConcurrentRegisterOneWinner ==
    /\ \A i, j \in Ids :
          i # j => /\ ToLowerCase(users[i].email) # ToLowerCase(users[j].email)
                   /\ ToLowerCase(users[i].username) # ToLowerCase(users[j].username)
    /\ (reqs[1].pc = "done" /\ reqs[2].pc = "done" /\ SameIdentity)
          => /\ Len(users) = 1
             /\ \E r \in Requests :
                   /\ reqs[r].err = "none"
                   /\ reqs[r].row = 1
                   /\ \A q \in Requests \ {r} : StatusOf(reqs[q].err) = 409

\* both requests had passed both existence checks when the first row was
\* stored: the loser was stopped by the unique index
C26_Witness ==
    /\ reqs[1].pc = "done"
    /\ reqs[2].pc = "done"
    /\ \E r \in Requests : reqs[r].err = "SequelizeUniqueConstraintError"
    /\ resp.op = "register"

(***************************************************************************)
(* C27: registration is atomic: no state that another request can observe, *)
(* and none a failure between the steps of createUser would leave behind,  *)
(* holds a registered account that is unverified and has no                *)
(* emailVerificationToken yet.                                             *)
(***************************************************************************)
C27_RegisterAtomic ==
    \A i \in Ids :
        (users[i].authProvider = "regular" /\ ~users[i].isEmailVerified)
            => users[i].emailVerificationToken # NULL

(***************************************************************************)
(* C28: every account that registration creates has role user, and no      *)
(* operation done without an administrator's token (register, login,       *)
(* refresh, updateProfile, change password, request and reset password,    *)
(* verify e-mail) makes an account coach or admin.                         *)
(***************************************************************************)
C28_NoSelfPromotion ==
    /\ \A i \in Ids : users[i].role = "user"
    /\ \A t \in jwts : t.role \in {"user", "undefined"}

(***************************************************************************)
(* C29: an account has one redeemable reset token at a time: a reset       *)
(* request stores the token it draws in place of the one stored before,    *)
(* and a reset succeeds only with the token of the latest request, so the  *)
(* token of an earlier request is refused once a later request was made.   *)
(* One account asks for resets, so the token of the latest request is the *)
(* latest value drawn.                                                     *)
(***************************************************************************)
RequestReplacesToken ==
    (resp'.op = "forgotPassword" /\ RequestPasswordReset("a@x.io") /\ resp'.err = "none")
        => /\ users'[resp'.uid].passwordResetToken = rnd'
           /\ \A t \in 1..rnd : \A i \in DOMAIN users' : users'[i].passwordResetToken # t

ResetOnlyNewest ==
    \A t \in TokenInputs, q \in Passwords :
        (resp'.op = "resetPassword" /\ ResetPassword(t, q))
            => ( resp'.err = "none"
                   <=> (t = rnd /\ \E i \in Ids : users[i].passwordResetToken = t) )

C29_OneLiveResetToken == [][RequestReplacesToken /\ ResetOnlyNewest]_vars

(***************************************************************************)
(* C30: an update of an account's e-mail address or user name ends with    *)
(* ConflictError exactly when another account holds the submitted value,   *)
(* compared without regard to letter case; submitting the account's own    *)
(* e-mail address or user name, in any letter case, succeeds.              *)
(***************************************************************************)
HeldByAnother(id, b) ==
    \E j \in Ids \ {id} :
        \/ Has(b, "email") /\ ToLowerCase(users[j].email) = ToLowerCase(b.email)
        \/ Has(b, "username") /\ ToLowerCase(users[j].username) = ToLowerCase(b.username)

UpdateConflictsOnlyWithOthers ==
    \A h \in Headers, b \in IdentityBodies :
        (resp'.op = "updateProfile" /\ UpdateProfile(h, b) /\ AuthenticateError(h) = "none")
            => /\ resp'.err = "ConflictError" <=> HeldByAnother(h.token.id, b)
               /\ ~HeldByAnother(h.token.id, b) => resp'.err = "none"

C30_UpdateConflictOnlyWithOthers == [][UpdateConflictsOnlyWithOthers]_vars

====
